---- MODULE Spec2Model ----
(***************************************************************************)
(* go-lockbox: lease-based distributed lock over PostgreSQL.               *)
(*                                                                         *)
(* The model has one lease table (the table of migration v0.0.1), one      *)
(* backend clock NOW() and a set of callers that run the adapter's         *)
(* Acquire / Release / Refresh / IsHeld against it.  Every SQL statement   *)
(* is a pure operator over (table, NOW(), arguments); every Go method is   *)
(* a group of actions, one per way its backend round trip can end.         *)
(*                                                                         *)
(* Spec is the adapter in service, SpecWithClose adds Close, SpecBoundary  *)
(* runs Acquire and Refresh over the inputs at the edges of the validation *)
(* rules, SpecFair is contention with fair progress of each Acquire call,  *)
(* SpecMigration the configuration and the bootstrap of the database.      *)
(*                                                                         *)
(* Units: instants and TTLs seen by the backend are milliseconds; a Go     *)
(* time.Duration is counted in microseconds (Go counts nanoseconds; the    *)
(* model keeps three digits below the millisecond so that the truncation   *)
(* of Duration.Milliseconds() is still a real conversion).                 *)
(***************************************************************************)
EXTENDS Integers, Sequences, FiniteSets, TLC

\* ------------------------------------------------------------------ bounds
NumCallers == 2
MaxTime == 30
TickMs == 15
MaxIds == 4

\* ------------------------------------------------------- program constants
Millisecond == 1000
MinLockTTL == 1000
MaxLockTTL == 600000000
MaxKeyLength == 256
SafetyPaddingMs == 10
MarginPercent == 15

Callers == 1..NumCallers

\* ------------------------------------------------------------------ inputs
\* Keys are sequences of characters.
KeyChars ==
    {"a","b","c","d","e","f","g","h","i","j","k","l","m","n","o","p","q","r",
     "s","t","u","v","w","x","y","z",
     "A","B","C","D","E","F","G","H","I","J","K","L","M","N","O","P","Q","R",
     "S","T","U","V","W","X","Y","Z",
     "0","1","2","3","4","5","6","7","8","9","_","-"}

JobKey == <<"j","o","b","-","4","2">>
SpacedKey == <<"a"," ","b">>
EmptyKey == << >>
\* Keys of MaxKeyLength and of MaxKeyLength + 1 characters.
MaxKey == [i \in 1..MaxKeyLength |-> "k"]
LongKey == [i \in 1..(MaxKeyLength + 1) |-> "k"]
KeyInputs == { JobKey, SpacedKey, EmptyKey, MaxKey, LongKey }

\* Retry strategies; factors are in hundredths (BackoffFactor 2.0 is 200).
RetryStrategy(maxRetries, backoffFactor) ==
    [MaxRetries |-> maxRetries, BaseDelay |-> 100000, MaxDelay |-> 10000000,
     JitterFactor |-> 20, BackoffFactor |-> backoffFactor]

LockOptions(ttl, strategy, metadata) ==
    [TTL |-> ttl, RetryStrategy |-> strategy, Metadata |-> metadata]

\* The (key, options) pairs a caller may pass to Acquire; TTLs are
\* time.Durations in microseconds.
AcquireInputs ==
    { <<JobKey, LockOptions(5500, RetryStrategy(0, 200), "null")>>,
      <<JobKey, LockOptions(5000, RetryStrategy(1, 200), "owner=test")>>,
      <<SpacedKey, LockOptions(5500, RetryStrategy(1, 200), "null")>>,
      <<JobKey, LockOptions(0, RetryStrategy(1, 200), "null")>>,
      <<JobKey, LockOptions(5500, RetryStrategy(1, 50), "null")>> }

\* A core.RetryStrategy with every field given; delays are time.Durations in
\* microseconds, factors in hundredths.
Strategy(maxRetries, baseDelay, maxDelay, jitterFactor, backoffFactor) ==
    [MaxRetries |-> maxRetries, BaseDelay |-> baseDelay, MaxDelay |-> maxDelay,
     JitterFactor |-> jitterFactor, BackoffFactor |-> backoffFactor]

\* TTLs at and around MinLockTTL and MaxLockTTL; the last is 11 minutes.
BoundaryTTLs ==
    { 0, MinLockTTL - 1, MinLockTTL, MaxLockTTL, MaxLockTTL + 1,
      11 * 60 * 1000 * Millisecond }

\* Retry strategies at and around each bound of the retry configuration.
BoundaryStrategies ==
    { Strategy(1, 100000, 10000000, 20, 200),
      Strategy(0 - 1, 100000, 10000000, 20, 200),
      Strategy(1, 100000, 10000000, 0 - 1, 200),
      Strategy(1, 100000, 10000000, 101, 200),
      Strategy(1, 100000, 10000000, 100, 100),
      Strategy(1, 100000, 10000000, 20, 99),
      Strategy(1, 0, 10000000, 20, 200),
      Strategy(1, 0 - 100, 10000, 20, 200),
      Strategy(1, 100000, 50000, 20, 200),
      Strategy(2, 100, 10000, 0, 150),
      Strategy(2, 100, 150, 0, 200) }

\* Every key with every TTL, and every strategy with the two TTLs in range.
BoundaryInputs ==
    { <<k, LockOptions(ttl, Strategy(1, 100000, 10000000, 20, 200), "null")>> :
          k \in KeyInputs, ttl \in BoundaryTTLs }
    \cup
    { <<JobKey, LockOptions(ttl, s, "null")>> :
          ttl \in { MinLockTTL, MaxLockTTL }, s \in BoundaryStrategies }

\* newTTL values (time.Duration, microseconds) a caller may pass to Refresh.
RefreshTTLInputs == { 1000, 40000 }

\* ------------------------------------------------------------------ values
NoRow == [absent |-> TRUE]
NoToken == [none |-> TRUE]
NoTime == 0 - 1
NoOptions == [none |-> TRUE]
NoReport == [none |-> TRUE]
NoTable == [none |-> TRUE]

\* ------------------------------------------------------------ core package
\* regexp ^[a-zA-Z0-9_-]{1,256}$
ValidateKey(key) ==
    IF Len(key) >= 1 /\ Len(key) <= MaxKeyLength
       /\ \A i \in 1..Len(key) : key[i] \in KeyChars
    THEN "nil" ELSE "ErrInvalidKeyFormat"

RetryStrategyValidate(r) ==
    IF r.MaxRetries < 0 THEN "ErrRetryStrategy"
    ELSE IF r.JitterFactor < 0 \/ r.JitterFactor > 100 THEN "ErrRetryStrategy"
    ELSE IF r.BackoffFactor < 100 THEN "ErrRetryStrategy"
    ELSE "nil"

LockOptionsValidateExclusive(o) ==
    IF o.TTL <= MinLockTTL \/ o.TTL >= MaxLockTTL THEN "ErrInvalidTTL"
    ELSE RetryStrategyValidate(o.RetryStrategy)
LockOptionsValidate(o) ==
    IF o.TTL < MinLockTTL \/ o.TTL > MaxLockTTL THEN "ErrInvalidTTL"
    ELSE RetryStrategyValidate(o.RetryStrategy)

\* time.Duration.Milliseconds(): integer division, truncating.
Milliseconds(d) == d \div Millisecond

RECURSIVE IntPow(_, _)
IntPow(b, e) == IF e = 0 THEN 1 ELSE b * IntPow(b, e - 1)

\* BaseDelay * time.Duration(math.Pow(BackoffFactor, attempt)): the power is
\* truncated to an integer before the multiplication.
CalculateBackoff(strategy, attempt) ==
    LET pow == IntPow(strategy.BackoffFactor, attempt) \div IntPow(100, attempt)
        delay == strategy.BaseDelay * pow
    IN  IF delay > strategy.MaxDelay THEN strategy.MaxDelay ELSE delay

\* uuid.NewString(): the n-th identifier drawn; identifiers never repeat.
NewStringConstant(n) == 1
NewStringRepeating(n) == (n % 2) + 1
NewString(n) == n

\* ------------------------------------------------------------- SQL, v0.0.1
Row(lease_id, valid_until, server_nonce, metadata, created_at, updated_at) ==
    [lease_id |-> lease_id, valid_until |-> valid_until,
     server_nonce |-> server_nonce, metadata |-> metadata,
     created_at |-> created_at, updated_at |-> updated_at]

\* ON CONFLICT ... WHERE valid_until <= NOW(): the row may be overwritten.
ExpiredAlways(row, t) == TRUE
ExpiredStrict(row, t) == row.valid_until < t
Expired(row, t) == row.valid_until <= t

\* NOW() + _ttl_ms ms + 10 ms
AcquireValidUntilNoPadding(t, ttl_ms) == t + ttl_ms
AcquireValidUntil(t, ttl_ms) == t + ttl_ms + SafetyPaddingMs

\* try_acquire_lock(_key, _lease_id, _ttl_ms, _nonce, _metadata): the result
\* row (result_acquired, result_valid_until) and the table afterwards.
try_acquire_lock(tbl, t, key, lease_id, ttl_ms, nonce, metadata) ==
    IF Len(key) > MaxKeyLength \/ \E i \in 1..Len(key) : key[i] \notin KeyChars
       \/ Len(key) = 0
    THEN [err |-> "22023", acquired |-> FALSE, valid_until |-> NoTime, tbl |-> tbl]
    ELSE IF tbl[key] = NoRow
    THEN [err |-> "nil", acquired |-> TRUE,
          valid_until |-> AcquireValidUntil(t, ttl_ms),
          tbl |-> [tbl EXCEPT ![key] =
                      Row(lease_id, AcquireValidUntil(t, ttl_ms), nonce,
                          metadata, t, t)]]
    ELSE IF Expired(tbl[key], t)
    THEN [err |-> "nil", acquired |-> TRUE,
          valid_until |-> AcquireValidUntil(t, ttl_ms),
          tbl |-> [tbl EXCEPT ![key] =
                      Row(lease_id, AcquireValidUntil(t, ttl_ms), nonce,
                          metadata, tbl[key].created_at, t)]]
    ELSE [err |-> "nil", acquired |-> FALSE, valid_until |-> NoTime, tbl |-> tbl]

\* WHERE key = $1 AND lease_id = $2 AND server_nonce = $3
IdentityMatchesLeaseOnly(row, lease_id, nonce) ==
    row # NoRow /\ row.lease_id = lease_id
IdentityMatches(row, lease_id, nonce) ==
    row # NoRow /\ row.lease_id = lease_id /\ row.server_nonce = nonce

\* releaseLockSQL: DELETE ... ; rows affected and the table afterwards.
releaseLockSQLByKey(tbl, key, lease_id, nonce) ==
    IF tbl[key] # NoRow
    THEN [rows |-> 1, tbl |-> [tbl EXCEPT ![key] = NoRow]]
    ELSE [rows |-> 0, tbl |-> tbl]
releaseLockSQL(tbl, key, lease_id, nonce) ==
    IF IdentityMatches(tbl[key], lease_id, nonce)
    THEN [rows |-> 1, tbl |-> [tbl EXCEPT ![key] = NoRow]]
    ELSE [rows |-> 0, tbl |-> tbl]

\* valid_until > NOW() - ($ttl * 0.15 * INTERVAL '1 millisecond')
WithinRefreshWindow(row, t, ttl_ms) ==
    100 * row.valid_until > 100 * t - MarginPercent * ttl_ms

\* refreshLockSQL: UPDATE ... RETURNING valid_until.  $ttl is the new TTL in
\* milliseconds and $new_nonce a nonce minted for this renewal.
refreshLockSQL(tbl, t, key, lease_id, nonce, ttl_ms, new_nonce) ==
    IF IdentityMatches(tbl[key], lease_id, nonce)
       /\ WithinRefreshWindow(tbl[key], t, ttl_ms)
    THEN [rows |-> 1, valid_until |-> t + ttl_ms,
          tbl |-> [tbl EXCEPT ![key] =
                      [@ EXCEPT !.valid_until = t + ttl_ms,
                                !.server_nonce = new_nonce,
                                !.updated_at = t]]]
    ELSE [rows |-> 0, valid_until |-> NoTime, tbl |-> tbl]

\* isHeldLockSQL: (is_locked, remaining_ttl in seconds as a fraction n/1000).
isHeldLockSQLAnyRow(tbl, t, key) ==
    IF tbl[key] = NoRow
    THEN [rows |-> 0, is_locked |-> FALSE, remaining_ms |-> 0]
    ELSE [rows |-> 1, is_locked |-> TRUE,
          remaining_ms |-> tbl[key].valid_until - t]
isHeldLockSQL(tbl, t, key) ==
    IF tbl[key] = NoRow
    THEN [rows |-> 0, is_locked |-> FALSE, remaining_ms |-> 0]
    ELSE [rows |-> 1, is_locked |-> tbl[key].valid_until > t,
          remaining_ms |-> tbl[key].valid_until - t]

\* ----------------------------------------------------- PostgresLockerConfig
PostgresLockerConfig(mSchema, mTable, lSchema, lTable, createSchemas) ==
    [MigrationSchema |-> mSchema,
     MigrationTableName |-> mTable,
     LockSchema |-> lSchema,
     LockTableName |-> lTable,
     CreateSchemasIfNotExists |-> createSchemas]

\* The messages of Validate, in the order of lines 29-44.
ValidateMessagesNoCollision(p) ==
    (IF p.MigrationSchema = "" THEN <<"MigrationSchema is required">>
     ELSE << >>)
    \o (IF p.MigrationTableName = ""
        THEN <<"MigrationTableName is required">> ELSE << >>)
    \o (IF p.LockSchema = "" THEN <<"LockSchema is required">> ELSE << >>)
    \o (IF p.LockTableName = ""
        THEN <<"LockTableName is required">> ELSE << >>)
ValidateMessages(p) ==
    (IF p.MigrationSchema = "" THEN <<"MigrationSchema is required">>
     ELSE << >>)
    \o (IF p.MigrationTableName = ""
        THEN <<"MigrationTableName is required">> ELSE << >>)
    \o (IF p.LockSchema = "" THEN <<"LockSchema is required">> ELSE << >>)
    \o (IF p.LockTableName = ""
        THEN <<"LockTableName is required">> ELSE << >>)
    \o (IF p.LockTableName # "" /\ p.LockTableName = p.MigrationTableName
        THEN <<"LockTableName and MigrationTableName must be different">>
        ELSE << >>)

\* PostgresLockerConfig.Validate: nil, or ErrInvalidConfig wrapped with the
\* messages joined.
PostgresLockerConfigValidate(p) ==
    IF Len(ValidateMessages(p)) > 0
    THEN [err |-> "ErrInvalidConfig", msgs |-> ValidateMessages(p)]
    ELSE [err |-> "nil", msgs |-> << >>]

\* PostgresLockerConfig.WithDefaults: every empty name gets its default.
WithDefaults(p) ==
    [p EXCEPT
        !.MigrationSchema = IF @ = "" THEN "public" ELSE @,
        !.MigrationTableName = IF @ = "" THEN "locker_migrations" ELSE @,
        !.LockSchema = IF @ = "" THEN "public" ELSE @,
        !.LockTableName = IF @ = "" THEN "locker_locks" ELSE @]

NewPostgresLockerConfig ==
    WithDefaults(PostgresLockerConfig("", "", "", "", TRUE))

\* The names given to the setters: none, the defaults, the names of the
\* migration test.
SchemaNames == { "", "public", "locker" }
TableNames == { "", "locker_migrations", "locker_locks", "locks" }
ConfigInputs ==
    { PostgresLockerConfig(ms, mt, ls, lt, create) :
        ms \in SchemaNames, mt \in TableNames,
        ls \in SchemaNames, lt \in TableNames, create \in BOOLEAN }

\* ---------------------------------------------------------------- database
\* A database: the schemas, the relations (tables and views) by
\* <<schema, name>> with the rows of a migration table, the indexes as
\* <<schema, index name, table name>>, the schemas that hold the function
\* try_acquire_lock, and whether the extension uuid-ossp is installed.
NoTables == [id \in {} |-> 0]
FreshDb ==
    [schemas |-> {"public"}, tables |-> NoTables, indexes |-> {},
     functions |-> {}, extension |-> FALSE]

SqlResult(err, d) == [err |-> err, db |-> d]

\* A round trip that fails before its statement runs.
BackendFailure(d) == SqlResult("backend error", d)

\* CREATE SCHEMA IF NOT EXISTS <schema>
CreateSchemaIfNotExists(d, schema) ==
    IF schema = "" THEN SqlResult("syntax error", d)
    ELSE SqlResult("nil", [d EXCEPT !.schemas = @ \cup {schema}])

\* CREATE TABLE / CREATE VIEW <schema>.<name>, with or without IF NOT EXISTS
CreateRelation(d, schema, name, kind, ifNotExists) ==
    IF schema = "" \/ name = "" THEN SqlResult("syntax error", d)
    ELSE IF schema \notin d.schemas
    THEN SqlResult("schema does not exist", d)
    ELSE IF <<schema, name>> \in DOMAIN d.tables
    THEN IF ifNotExists THEN SqlResult("nil", d)
         ELSE SqlResult("relation already exists", d)
    ELSE SqlResult("nil",
            [d EXCEPT !.tables =
                (<<schema, name>> :> [kind |-> kind, rows |-> << >>]) @@ @])

\* INSERT INTO <schema>.<name> (version) VALUES ($1)
InsertVersion(d, schema, name, version) ==
    IF schema = "" \/ name = "" THEN SqlResult("syntax error", d)
    ELSE IF <<schema, name>> \notin DOMAIN d.tables
    THEN SqlResult("relation does not exist", d)
    ELSE IF d.tables[<<schema, name>>].kind # "migrations"
    THEN SqlResult("column does not exist", d)
    ELSE SqlResult("nil",
            [d EXCEPT !.tables[<<schema, name>>].rows = Append(@, version)])

\* CREATE INDEX CONCURRENTLY IF NOT EXISTS <index> ON "<schema>"."<name>":
\* skipped when the schema already has an index of that name.
CreateIndexIfNotExists(d, schema, name, index) ==
    IF schema = "" \/ name = "" THEN SqlResult("syntax error", d)
    ELSE IF <<schema, name>> \notin DOMAIN d.tables
    THEN SqlResult("relation does not exist", d)
    ELSE IF d.tables[<<schema, name>>].kind = "view"
    THEN SqlResult("not a table", d)
    ELSE IF \E x \in d.indexes : x[1] = schema /\ x[2] = index
    THEN SqlResult("nil", d)
    ELSE SqlResult("nil",
            [d EXCEPT !.indexes = @ \cup {<<schema, index, name>>}])

createMigrationSchema(d, c) == CreateSchemaIfNotExists(d, c.MigrationSchema)

createLockSchema(d, c) == CreateSchemaIfNotExists(d, c.LockSchema)

createMigrationTable(d, c) ==
    CreateRelation(d, c.MigrationSchema, c.MigrationTableName,
                   "migrations", TRUE)

\* The points where a round trip of PrepareDbForMigrations can fail: none,
\* or the first, second or third statement.
PrepareFailures == 0..3

\* PrepareDbForMigrations: nothing unless CreateSchemasIfNotExists, else the
\* two schemas and the migration table, stopping at the first error.
PrepareDbSkipsLockSchema(d, c, fail) ==
    IF ~c.CreateSchemasIfNotExists THEN SqlResult("nil", d)
    ELSE LET s1 == IF fail = 1 THEN BackendFailure(d)
                   ELSE createMigrationSchema(d, c)
         IN  IF s1.err # "nil" THEN s1
             ELSE IF fail = 3 THEN BackendFailure(s1.db)
             ELSE createMigrationTable(s1.db, c)
PrepareDb(d, c, fail) ==
    IF ~c.CreateSchemasIfNotExists THEN SqlResult("nil", d)
    ELSE LET s1 == IF fail = 1 THEN BackendFailure(d)
                   ELSE createMigrationSchema(d, c)
             s2 == IF fail = 2 THEN BackendFailure(s1.db)
                   ELSE createLockSchema(s1.db, c)
         IN  IF s1.err # "nil" THEN s1
             ELSE IF s2.err # "nil" THEN s2
             ELSE IF fail = 3 THEN BackendFailure(s2.db)
             ELSE createMigrationTable(s2.db, c)

\* migrations/v0.0.1.sql followed by the INSERT of the version, in one
\* transaction: all of it or, at the first error, none of it.
runMigrationTransaction(d, c, version, fail) ==
    LET s1 == CreateRelation([d EXCEPT !.extension = TRUE],
                             c.LockSchema, c.LockTableName, "locks", FALSE)
        s2 == [s1 EXCEPT !.db.functions = @ \cup {c.LockSchema}]
        s3 == CreateRelation(s2.db, c.LockSchema, "lock_health", "view",
                             FALSE)
        s4 == InsertVersion(s3.db, c.MigrationSchema, c.MigrationTableName,
                            version)
    IN  IF fail THEN BackendFailure(d)
        ELSE IF s1.err # "nil" THEN SqlResult(s1.err, d)
        ELSE IF s3.err # "nil" THEN SqlResult(s3.err, d)
        ELSE IF s4.err # "nil" THEN SqlResult(s4.err, d)
        ELSE s4

\* migrations/v0.0.1-indexes.sql statement by statement, then the INSERT of
\* the version, each on its own: what ran before an error stays.
\* fail counts the round trips that succeed before one fails (0: none fails).
runMigration(d, c, version, fail) ==
    LET s1 == IF fail = 2 THEN BackendFailure(d)
              ELSE CreateIndexIfNotExists(d, c.LockSchema, c.LockTableName,
                                          "idx_locks_expiration")
        s2 == IF fail = 3 THEN BackendFailure(s1.db)
              ELSE CreateIndexIfNotExists(s1.db, c.LockSchema,
                                          c.LockTableName, "idx_locks_lease")
    IN  IF fail = 1 THEN BackendFailure(d)
        ELSE IF s1.err # "nil" THEN s1
        ELSE IF s2.err # "nil" THEN s2
        ELSE IF fail = 4 THEN BackendFailure(s2.db)
        ELSE InsertVersion(s2.db, c.MigrationSchema, c.MigrationTableName,
                           version)

\* The points where RunMigrations can fail: nowhere, in the transaction of
\* v0.0.1, or at one of the four round trips of v0.0.1-indexes.
RunFailures == 0..5

\* RunMigrations: the two migrations of migrationsData in order, stopping at
\* the first error.
RunMigrationsResult(d, c, fail) ==
    LET m1 == runMigrationTransaction(d, c, "v0.0.1", fail = 5)
    IN  IF m1.err # "nil" THEN m1
        ELSE runMigration(m1.db, c, "v0.0.1-indexes", fail)

\* The four EXISTS queries of GetSchemaStatus.
SchemaStatus(d, c) ==
    LET migrationSchemaExists == c.MigrationSchema \in d.schemas
    IN  [MigrationSchemaExists |-> migrationSchemaExists,
         MigrationTableExists |->
            <<c.MigrationSchema, c.MigrationTableName>> \in DOMAIN d.tables,
         LockSchemaExists |->
            IF c.LockSchema = c.MigrationSchema THEN migrationSchemaExists
            ELSE c.LockSchema \in d.schemas,
         LockTableExists |->
            <<c.LockSchema, c.LockTableName>> \in DOMAIN d.tables]

NoStatus == [none |-> TRUE]

\* The database the adapter is in service on: the default configuration,
\* prepared and migrated.
MigratedDb ==
    RunMigrationsResult(
        PrepareDb(FreshDb, NewPostgresLockerConfig, 0).db,
        NewPostgresLockerConfig, 0).db

\* ------------------------------------------------------------------- state
VARIABLES
    now,      \* the backend's NOW(), milliseconds
    table,    \* the lease table: key -> row or NoRow
    call,     \* per caller: the Acquire call in progress
    tok,      \* per caller: the *core.LockToken it holds, or NoToken
    nextId,   \* identifiers drawn from uuid.NewString() so far
    closed,   \* Close has been called on the adapter's pool (the callers share it)
    cfg,      \* the adapter's Cfg, a PostgresLockerConfig
    db,       \* the database's schemas, tables, indexes and other objects
    last      \* the outcome of the operation that completed last

vars == <<now, table, call, tok, nextId, closed, cfg, db, last>>

Idle == [pc |-> "idle"]

LockToken(key, lease_id, valid_until, nonce) ==
    [Key |-> key, LeaseID |-> lease_id, ValidUntil |-> valid_until,
     ServerNonce |-> nonce]

\* What an operation left behind: the method, the caller, the key, the error
\* and the token returned, the row of the key and the caller's token before
\* the operation, and the instant of the operation.  attempt and retries are
\* the loop counter and MaxRetries of an Acquire, newTTL the newTTL of a
\* Refresh and ttl the same in whole milliseconds, held and remaining the values IsHeld returned, opts the
\* options, lease the leaseID and contended the number of contended attempts
\* of an Acquire, nonce its serverNonce and waits the number of backoff
\* sleeps it had made before its last attempt; each is zero, FALSE or
\* NoOptions for the other methods.
\* closed tells whether the adapter was closed when the operation was called.
\* probe, report and tbl are the probe's result, the report returned and the
\* whole table before the call of a HealthCheck.
Outcome(op, c, key, err, ret) ==
    [op |-> op, c |-> c, key |-> key, err |-> err, ret |-> ret,
     pre |-> table[key], had |-> tok[c], at |-> now,
     attempt |-> 0, retries |-> 0, ttl |-> 0, newTTL |-> 0, held |-> FALSE,
     remaining |-> 0,
     opts |-> NoOptions, lease |-> 0, nonce |-> 0, contended |-> 0,
     waits |-> 0, closed |-> closed,
     probe |-> "none", report |-> NoReport, tbl |-> NoTable]

AcquireOutcome(op, c, err, ret) ==
    [Outcome(op, c, call[c].key, err, ret) EXCEPT
        !.attempt = call[c].attempt,
        !.retries = call[c].opts.RetryStrategy.MaxRetries,
        !.opts = call[c].opts,
        !.lease = call[c].leaseID,
        !.nonce = call[c].nonce,
        !.contended = call[c].contended,
        !.waits = call[c].waits,
        !.closed = call[c].closed]

Init ==
    /\ now = 0
    /\ table = [k \in KeyInputs |-> NoRow]
    /\ call = [c \in Callers |-> Idle]
    /\ tok = [c \in Callers |-> NoToken]
    /\ nextId = 0
    /\ closed = FALSE
    /\ cfg = NewPostgresLockerConfig
    /\ db = MigratedDb
    /\ last = [op |-> "none"]

\* ----------------------------------------------------------------- Acquire
AcquireValidation(key, opts) ==
    IF ValidateKey(key) # "nil" THEN ValidateKey(key)
    ELSE LockOptionsValidate(opts)

\* Acquire, lines 16-21: validation fails, the call returns the error.
AcquireInvalid(c, key, opts) ==
    /\ call[c].pc = "idle"
    /\ AcquireValidation(key, opts) # "nil"
    /\ last' = [Outcome("Acquire", c, key, AcquireValidation(key, opts),
                        NoToken) EXCEPT !.opts = opts]
    /\ UNCHANGED <<now, table, call, tok, nextId, closed, cfg, db>>

\* Acquire, lines 16-30: validation passes, leaseID and nonce are drawn.
AcquireStart(c, key, opts) ==
    /\ call[c].pc = "idle"
    /\ AcquireValidation(key, opts) = "nil"
    /\ nextId + 2 <= MaxIds
    /\ call' = [call EXCEPT ![c] =
                   [pc |-> "attempt", key |-> key, opts |-> opts,
                    leaseID |-> NewString(nextId + 1),
                    nonce |-> NewString(nextId + 2), attempt |-> 0,
                    contended |-> 0, waits |-> 0, delay |-> 0,
                    closed |-> closed]]
    /\ nextId' = nextId + 2
    /\ UNCHANGED <<now, table, tok, last, closed, cfg, db>>

\* The function call of lines 36-39 for the attempt caller c is about to make.
AttemptResult(c) ==
    try_acquire_lock(table, now, call[c].key, call[c].leaseID,
                     Milliseconds(call[c].opts.TTL), call[c].nonce,
                     call[c].opts.Metadata)

\* Line 44: err == nil && acquired.
GrantedOnNoError(res) == res.err = "nil"
Granted(res) == res.err = "nil" /\ res.acquired

\* Line 55: err == nil && !acquired.
Contended(res) == res.err = "nil" /\ ~res.acquired

\* Lines 44-52: the attempt is granted, the token is returned.
AcquireGranted(c) ==
    /\ call[c].pc = "attempt" /\ ~closed
    /\ Granted(AttemptResult(c))
    /\ table' = AttemptResult(c).tbl
    /\ tok' = [tok EXCEPT ![c] =
                  LockToken(call[c].key, call[c].leaseID,
                            AttemptResult(c).valid_until, call[c].nonce)]
    /\ last' = AcquireOutcome("Acquire", c, "nil", tok'[c])
    /\ call' = [call EXCEPT ![c] = Idle]
    /\ UNCHANGED <<now, nextId, closed, cfg, db>>

\* Lines 55-58: contention, the call sleeps for the backoff delay.
AcquireContended(c) ==
    /\ call[c].pc = "attempt" /\ ~closed
    /\ ~Granted(AttemptResult(c)) /\ Contended(AttemptResult(c))
    /\ table' = AttemptResult(c).tbl
    /\ call' = [call EXCEPT ![c].pc = "sleep",
                            ![c].contended = @ + 1,
                            ![c].waits = @ + 1,
                            ![c].delay = CalculateBackoff(
                                call[c].opts.RetryStrategy, call[c].attempt)]
    /\ last' = AcquireOutcome("TryAcquire", c, "nil", NoToken)
    /\ UNCHANGED <<now, tok, nextId, closed, cfg, db>>

\* Line 60: fmt.Errorf("failed to acquire lock: %w", err) keeps the backend
\* error as the cause.
WrapAsAcquisitionFailed(err) == "ErrLockAcquisitionFailed"
WrapBackendError(err) == err

\* Line 60: the round trip fails before the statement runs (no connection,
\* the per-attempt deadline, a cancelled context, a closed pool).
AcquireBackendError(c) ==
    /\ call[c].pc = "attempt"
    /\ last' = AcquireOutcome("Acquire", c, WrapBackendError("BackendError"),
                              NoToken)
    /\ call' = [call EXCEPT ![c] = Idle]
    /\ UNCHANGED <<now, table, tok, nextId, closed, cfg, db>>

\* Line 60: the statement runs and commits, and the deadline or the
\* connection fails before the row is read.
AcquireResponseLost(c) ==
    /\ call[c].pc = "attempt" /\ ~closed
    /\ AttemptResult(c).err = "nil"
    /\ table' = AttemptResult(c).tbl
    /\ last' = AcquireOutcome("Acquire", c, WrapBackendError("BackendError"),
                              NoToken)
    /\ call' = [call EXCEPT ![c] = Idle]
    /\ UNCHANGED <<now, tok, nextId, closed, cfg, db>>

\* Line 32: the loop's condition attempt <= opts.RetryStrategy.MaxRetries.
LoopContinuesStrict(attempt, maxRetries) == attempt < maxRetries
LoopContinues(attempt, maxRetries) == attempt <= maxRetries

\* Line 32: the loop's step attempt++.
NextAttemptSame(attempt) == attempt
NextAttempt(attempt) == attempt + 1

\* Lines 32, 56-57: the sleep ends, attempt++ and another attempt follows.
AcquireRetry(c) ==
    /\ call[c].pc = "sleep"
    /\ LoopContinues(NextAttempt(call[c].attempt),
                     call[c].opts.RetryStrategy.MaxRetries)
    /\ call' = [call EXCEPT ![c].pc = "attempt",
                            ![c].attempt = NextAttempt(@),
                            ![c].delay = 0]
    /\ UNCHANGED <<now, table, tok, nextId, last, closed, cfg, db>>

\* Lines 32, 63: the sleep ends and the loop is over.
AcquireExhausted(c) ==
    /\ call[c].pc = "sleep"
    /\ ~LoopContinues(NextAttempt(call[c].attempt),
                      call[c].opts.RetryStrategy.MaxRetries)
    /\ last' = AcquireOutcome("Acquire", c, "ErrLockAcquisitionFailed",
                              NoToken)
    /\ call' = [call EXCEPT ![c] = Idle]
    /\ UNCHANGED <<now, table, tok, nextId, closed, cfg, db>>

\* ----------------------------------------------------------------- Release
ReleaseResult(c) ==
    releaseLockSQL(table, tok[c].Key, tok[c].LeaseID, tok[c].ServerNonce)

\* Release, lines 96-108: zero rows affected is the ownership mismatch.
ReleaseErrorNil(rows) == "nil"
ReleaseError(rows) ==
    IF rows = 0 THEN "ErrLockOwnershipMismatch" ELSE "nil"

\* Release: the DELETE runs and its reply is read.
Release(c) ==
    /\ call[c].pc = "idle" /\ tok[c] # NoToken /\ ~closed
    /\ table' = ReleaseResult(c).tbl
    /\ last' = Outcome("Release", c, tok[c].Key,
                       ReleaseError(ReleaseResult(c).rows), NoToken)
    /\ UNCHANGED <<now, call, tok, nextId, closed, cfg, db>>

\* Release: the round trip fails before the DELETE runs.
ReleaseBackendError(c) ==
    /\ call[c].pc = "idle" /\ tok[c] # NoToken
    /\ last' = Outcome("Release", c, tok[c].Key, "BackendError", NoToken)
    /\ UNCHANGED <<now, table, call, tok, nextId, closed, cfg, db>>

\* Release: the DELETE commits and the reply is lost.
ReleaseResponseLost(c) ==
    /\ call[c].pc = "idle" /\ tok[c] # NoToken /\ ~closed
    /\ table' = ReleaseResult(c).tbl
    /\ last' = Outcome("Release", c, tok[c].Key, "BackendError", NoToken)
    /\ UNCHANGED <<now, call, tok, nextId, closed, cfg, db>>

\* ----------------------------------------------------------------- Refresh
RefreshResult(c, newTTL) ==
    refreshLockSQL(table, now, tok[c].Key, tok[c].LeaseID, tok[c].ServerNonce,
                   Milliseconds(newTTL), NewString(nextId + 1))

\* Refresh, lines 37-44: pgx.ErrNoRows is ErrRefreshTooLate.
RefreshError(rows) ==
    IF rows = 0 THEN "ErrRefreshTooLate" ELSE "nil"

RefreshOutcome(c, newTTL, err, ret) ==
    [Outcome("Refresh", c, tok[c].Key, err, ret) EXCEPT
        !.ttl = Milliseconds(newTTL), !.newTTL = newTTL]

\* Refresh, lines 30-48: the UPDATE runs.  No row is ErrRefreshTooLate; a row
\* sets token.ValidUntil and returns the caller's own token.
Refresh(c, newTTL) ==
    /\ call[c].pc = "idle" /\ tok[c] # NoToken /\ ~closed
    /\ nextId + RefreshResult(c, newTTL).rows <= MaxIds
    /\ table' = RefreshResult(c, newTTL).tbl
    /\ nextId' = nextId + RefreshResult(c, newTTL).rows
    /\ tok' = IF RefreshResult(c, newTTL).rows = 0 THEN tok
              ELSE [tok EXCEPT ![c].ValidUntil =
                       RefreshResult(c, newTTL).valid_until]
    /\ last' = RefreshOutcome(c, newTTL,
                              RefreshError(RefreshResult(c, newTTL).rows),
                              IF RefreshResult(c, newTTL).rows = 0
                              THEN NoToken ELSE tok'[c])
    /\ UNCHANGED <<now, call, closed, cfg, db>>

\* Refresh: the round trip fails before the UPDATE runs.
RefreshBackendError(c, newTTL) ==
    /\ call[c].pc = "idle" /\ tok[c] # NoToken
    /\ last' = RefreshOutcome(c, newTTL, "BackendError", NoToken)
    /\ UNCHANGED <<now, table, call, tok, nextId, closed, cfg, db>>

\* Refresh: the UPDATE commits and the reply is lost.
RefreshResponseLost(c, newTTL) ==
    /\ call[c].pc = "idle" /\ tok[c] # NoToken /\ ~closed
    /\ nextId + RefreshResult(c, newTTL).rows <= MaxIds
    /\ table' = RefreshResult(c, newTTL).tbl
    /\ nextId' = nextId + RefreshResult(c, newTTL).rows
    /\ last' = RefreshOutcome(c, newTTL, "BackendError", NoToken)
    /\ UNCHANGED <<now, call, tok, closed, cfg, db>>

\* ------------------------------------------------------------------ IsHeld
\* time.Duration(remainingTTL) * time.Second: whole seconds, truncated.
RemainingDuration(remaining_ms) ==
    (IF remaining_ms >= 0 THEN remaining_ms \div 1000
     ELSE 0 - ((0 - remaining_ms) \div 1000)) * 1000 * Millisecond

IsHeld(c) ==
    /\ call[c].pc = "idle" /\ tok[c] # NoToken /\ ~closed
    /\ last' = [Outcome("IsHeld", c, tok[c].Key, "nil", NoToken) EXCEPT
                   !.held = isHeldLockSQL(table, now, tok[c].Key).is_locked,
                   !.remaining =
                       IF isHeldLockSQL(table, now, tok[c].Key).rows = 0
                       THEN 0
                       ELSE RemainingDuration(
                              isHeldLockSQL(table, now, tok[c].Key).remaining_ms)]
    /\ UNCHANGED <<now, table, call, tok, nextId, closed, cfg, db>>

IsHeldBackendError(c) ==
    /\ call[c].pc = "idle" /\ tok[c] # NoToken
    /\ last' = Outcome("IsHeld", c, tok[c].Key, "BackendError", NoToken)
    /\ UNCHANGED <<now, table, call, tok, nextId, closed, cfg, db>>

\* ------------------------------------------------------------------- Close
\* Close, lines 31-34: pool.Close() and nil; closing a closed pool does
\* nothing.  A closed pool runs no statement: every later round trip of the
\* adapter ends in the pool's error.
Close(c) ==
    /\ closed' = TRUE
    /\ last' = Outcome("Close", c, EmptyKey, "nil", NoToken)
    /\ UNCHANGED <<now, table, call, tok, nextId, cfg, db>>

\* ------------------------------------------------------------- HealthCheck
\* The ways the probe SELECT 1 can end: the row is read, or the round trip
\* fails (no connection, the 2 s deadline, a closed pool).
ProbeResults == { "ok", "error" }

\* errors.New(text): an error value that is not nil, whatever the text.
ErrorsNew(text) == [nil |-> FALSE, text |-> text]

\* HealthCheck, lines 48-68: the report built from the probe's result.
HealthReportAlwaysGreen(probe) ==
    [Status |-> "StatusGreen", Error |-> ErrorsNew("")]
HealthReport(probe) ==
    [Status |-> IF probe = "ok" THEN "StatusGreen" ELSE "StatusRed",
     Error |-> ErrorsNew(IF probe = "ok" THEN "" ELSE "probe failed")]

\* HealthCheck, lines 39-69: the probe runs and the report is returned; the
\* method has no error result.
HealthCheck(c, probe) ==
    /\ probe = "ok" => ~closed
    /\ last' = [Outcome("HealthCheck", c, EmptyKey, "nil", NoToken) EXCEPT
                   !.probe = probe, !.report = HealthReport(probe),
                   !.tbl = table]
    /\ UNCHANGED <<now, table, call, tok, nextId, closed, cfg, db>>

\* ---------------------------------------------------- bootstrap actions
\* What an operation on the configuration or the database left behind: the
\* method, its error, the configuration and the database before it, the
\* messages of Validate and the status of GetSchemaStatus.
MigrationOutcome(op, err) ==
    [op |-> op, err |-> err, cfg |-> cfg, db |-> db,
     msgs |-> << >>, status |-> NoStatus]

ConfigValidate ==
    /\ last' = [MigrationOutcome("Validate",
                                 PostgresLockerConfigValidate(cfg).err)
                  EXCEPT !.msgs = PostgresLockerConfigValidate(cfg).msgs]
    /\ UNCHANGED <<now, table, call, tok, nextId, closed, cfg, db>>

ConfigWithDefaults ==
    /\ cfg' = WithDefaults(cfg)
    /\ last' = MigrationOutcome("WithDefaults", "nil")
    /\ UNCHANGED <<now, table, call, tok, nextId, closed, db>>

GetSchemaStatus(fail) ==
    /\ last' = IF fail
               THEN MigrationOutcome("GetSchemaStatus", "backend error")
               ELSE [MigrationOutcome("GetSchemaStatus", "nil")
                       EXCEPT !.status = SchemaStatus(db, cfg)]
    /\ UNCHANGED <<now, table, call, tok, nextId, closed, cfg, db>>

PrepareDbForMigrations(fail) ==
    /\ fail # 0 => cfg.CreateSchemasIfNotExists
    /\ db' = PrepareDb(db, cfg, fail).db
    /\ last' = MigrationOutcome("PrepareDbForMigrations",
                                PrepareDb(db, cfg, fail).err)
    /\ UNCHANGED <<now, table, call, tok, nextId, closed, cfg>>

RunMigrations(fail) ==
    /\ db' = RunMigrationsResult(db, cfg, fail).db
    /\ last' = MigrationOutcome("RunMigrations",
                                RunMigrationsResult(db, cfg, fail).err)
    /\ UNCHANGED <<now, table, call, tok, nextId, closed, cfg>>

\* -------------------------------------------------------------------- time
Tick ==
    /\ now + TickMs <= MaxTime
    /\ now' = now + TickMs
    /\ UNCHANGED <<table, call, tok, nextId, last, closed, cfg, db>>

Next ==
    \/ \E c \in Callers, in \in AcquireInputs :
          \/ AcquireInvalid(c, in[1], in[2])
          \/ AcquireStart(c, in[1], in[2])
    \/ \E c \in Callers :
          \/ AcquireGranted(c)
          \/ AcquireContended(c)
          \/ AcquireBackendError(c)
          \/ AcquireResponseLost(c)
          \/ AcquireRetry(c)
          \/ AcquireExhausted(c)
          \/ Release(c)
          \/ ReleaseBackendError(c)
          \/ ReleaseResponseLost(c)
          \/ IsHeld(c)
          \/ IsHeldBackendError(c)
    \/ \E c \in Callers, newTTL \in RefreshTTLInputs :
          \/ Refresh(c, newTTL)
          \/ RefreshBackendError(c, newTTL)
          \/ RefreshResponseLost(c, newTTL)
    \/ \E c \in Callers, probe \in ProbeResults : HealthCheck(c, probe)
    \/ Tick

\* The adapter in service: no caller closes it.
Spec == Init /\ [][Next]_vars

\* The adapter's whole life: any caller may close it at any moment.
NextWithClose == Next \/ \E c \in Callers : Close(c)

SpecWithClose == Init /\ [][NextWithClose]_vars

\* Acquire over the boundary inputs: one caller passes every key, TTL and
\* retry strategy of BoundaryInputs; each is validated and, when it passes,
\* run through the retry loop.
FirstCaller == CHOOSE c \in Callers : \A d \in Callers : c <= d

NextBoundary ==
    \/ \E c \in { FirstCaller }, in \in BoundaryInputs :
          \/ AcquireInvalid(c, in[1], in[2])
          \/ AcquireStart(c, in[1], in[2])
    \/ \E c \in { FirstCaller } :
          \/ AcquireGranted(c)
          \/ AcquireContended(c)
          \/ AcquireRetry(c)
          \/ AcquireExhausted(c)
    \/ \E c \in { FirstCaller }, newTTL \in BoundaryTTLs : Refresh(c, newTTL)
    \/ Tick

SpecBoundary == Init /\ [][NextBoundary]_vars

\* The steps of caller c's Acquire call in progress: the end of the round trip
\* of an attempt (a row read, an error, the per-attempt deadline of line 33)
\* and the end of a sleep.
AcquireStep(c) ==
    \/ AcquireGranted(c)
    \/ AcquireContended(c)
    \/ AcquireBackendError(c)
    \/ AcquireResponseLost(c)
    \/ AcquireRetry(c)
    \/ AcquireExhausted(c)

\* Callers contending for the keys: each starts calls that pass validation,
\* and releases or renews what it holds, as it likes.
NextContention ==
    \/ \E c \in Callers, i \in AcquireInputs :
          AcquireStart(c, i[1], i[2])
    \/ \E c \in Callers : AcquireStep(c)
    \/ \E c \in Callers : Release(c)
    \/ \E c \in Callers, newTTL \in RefreshTTLInputs : Refresh(c, newTTL)
    \/ Tick

\* Contention where every round trip returns or runs into its deadline and
\* every sleep ends: a call in progress is not left waiting for ever.
\* Nothing is assumed about what the other callers do.
SpecFair ==
    /\ Init
    /\ [][NextContention]_vars
    /\ \A c \in Callers : WF_vars(AcquireStep(c))

\* The bootstrap of a database before the adapter is in service: one adapter
\* whose Cfg was set before the first call, on a database that has only the
\* schema public.
InitMigration ==
    /\ now = 0
    /\ table = [k \in KeyInputs |-> NoRow]
    /\ call = [c \in Callers |-> Idle]
    /\ tok = [c \in Callers |-> NoToken]
    /\ nextId = 0
    /\ closed = FALSE
    /\ cfg \in ConfigInputs
    /\ db = FreshDb
    /\ last = [op |-> "none"]

NextMigration ==
    \/ ConfigValidate
    \/ ConfigWithDefaults
    \/ \E fail \in BOOLEAN : GetSchemaStatus(fail)
    \/ \E fail \in PrepareFailures : PrepareDbForMigrations(fail)
    \/ \E fail \in RunFailures : RunMigrations(fail)

SpecMigration == InitMigration /\ [][NextMigration]_vars

\* ================================================================== claims
\* The token of caller c is valid proof of ownership: (key, leaseID,
\* serverNonce) equal the stored record and its validUntil has not elapsed.
ValidProof(c) ==
    /\ tok[c] # NoToken
    /\ table[tok[c].Key] # NoRow
    /\ table[tok[c].Key].lease_id = tok[c].LeaseID
    /\ table[tok[c].Key].server_nonce = tok[c].ServerNonce
    /\ table[tok[c].Key].valid_until > now

\* The row r is a lease that had not elapsed at instant t.
Live(r, t) == r # NoRow /\ r.valid_until > t

\* The token t carries the identity of row r.
SameIdentity(r, t) ==
    r # NoRow /\ t # NoToken /\ r.lease_id = t.LeaseID
    /\ r.server_nonce = t.ServerNonce

\* C1: in every reachable state each key has at most one lease record (the
\* table is a function of the key) and no two callers hold valid proof of
\* ownership of the same key.
C1_AtMostOneOwner ==
    /\ DOMAIN table = KeyInputs
    /\ \A c1, c2 \in Callers :
          (c1 # c2 /\ ValidProof(c1) /\ ValidProof(c2))
              => tok[c1].Key # tok[c2].Key

\* One caller owns the key while another still holds a token for it.
C1_Witness ==
    \E c1, c2 \in Callers :
        /\ c1 # c2 /\ ValidProof(c1)
        /\ tok[c2] # NoToken /\ tok[c2].Key = tok[c1].Key
        /\ ~ValidProof(c2)

\* C2: an Acquire call returns a token only from an attempt that found no
\* lease or an elapsed one, so of the calls contending for a live lease none
\* is granted; an attempt reports contention only against a live lease, and
\* a call that returns neither a token nor a validation or backend error has
\* made all MaxRetries + 1 attempts and returns ErrLockAcquisitionFailed.
C2_MutualExclusion ==
    /\ (last.op = "Acquire" /\ last.ret # NoToken)
          => (last.err = "nil" /\ ~Live(last.pre, last.at))
    /\ last.op = "TryAcquire"
          => (Live(last.pre, last.at) /\ last.ret = NoToken)
    /\ (last.op = "Acquire" /\ last.ret = NoToken
        /\ last.err \notin {"BackendError", "ErrInvalidKeyFormat",
                            "ErrInvalidTTL", "ErrRetryStrategy"})
          => (last.err = "ErrLockAcquisitionFailed"
              /\ last.attempt = last.retries)
    /\ \A c \in Callers :
          call[c].pc = "sleep" => call[c].attempt <= call[c].opts.RetryStrategy.MaxRetries

\* A call with one retry is exhausted while the other caller owns the key.
C2_Witness ==
    /\ last.op = "Acquire" /\ last.err = "ErrLockAcquisitionFailed"
    /\ last.retries = 1 /\ last.attempt = 1
    /\ \E c \in Callers : c # last.c /\ ValidProof(c) /\ tok[c].Key = last.key

\* C3: a Release or Refresh presenting a token whose leaseID or serverNonce
\* differs from the key's record leaves the record as it was and, when the
\* round trip itself succeeds, fails with ErrLockOwnershipMismatch (Release)
\* or ErrRefreshTooLate (Refresh); IsHeld with such a token reports a live
\* lease of the current holder as held.
C3_OwnershipEnforced ==
    /\ (last.op \in {"Release", "Refresh"} /\ last.pre # NoRow
        /\ ~SameIdentity(last.pre, last.had))
          => /\ table[last.key] = last.pre
             /\ last.ret = NoToken
             /\ last.err # "nil"
             /\ last.err # "BackendError"
                   => last.err = (IF last.op = "Release"
                                  THEN "ErrLockOwnershipMismatch"
                                  ELSE "ErrRefreshTooLate")
    /\ (last.op = "IsHeld" /\ last.err = "nil" /\ Live(last.pre, last.at)
        /\ ~SameIdentity(last.pre, last.had))
          => (last.held /\ table[last.key] = last.pre)

\* The holder whose lease expired and was taken over presents its stale
\* token to Release while the new holder's lease is live.
C3_Witness ==
    /\ last.op = "Release" /\ last.err = "ErrLockOwnershipMismatch"
    /\ Live(last.pre, last.at)
    /\ last.had.LeaseID # last.pre.lease_id
    /\ last.had.ServerNonce # last.pre.server_nonce
    /\ \E c \in Callers : c # last.c /\ ValidProof(c)

\* C4: an attempt on a key whose lease has elapsed (validUntil <= NOW()) is
\* granted, whoever makes it and whatever the attempt number, and the record
\* then carries the new caller's identity; no Release is needed.
C4_ExpirySelfHeals ==
    /\ \A c \in Callers :
          (call[c].pc = "attempt" /\ table[call[c].key] # NoRow
           /\ table[call[c].key].valid_until <= now)
              => /\ AttemptResult(c).acquired
                 /\ AttemptResult(c).tbl[call[c].key].lease_id = call[c].leaseID
                 /\ AttemptResult(c).tbl[call[c].key].valid_until > now
    /\ (last.op \in {"TryAcquire", "Acquire"} /\ last.pre # NoRow
        /\ last.pre.valid_until <= last.at /\ last.err = "nil")
          => /\ last.op = "Acquire" /\ last.ret # NoToken
             /\ table[last.key].lease_id = last.ret.LeaseID
             /\ table[last.key].server_nonce = last.ret.ServerNonce

\* A first attempt takes over a lease exactly at its validUntil; the previous
\* lease was still in the table (it was never released).
C4_Witness ==
    /\ last.op = "Acquire" /\ last.ret # NoToken /\ last.attempt = 0
    /\ last.pre # NoRow /\ last.pre.valid_until = last.at
    /\ last.pre.lease_id # last.ret.LeaseID

\* C5: a Release whose round trip succeeds returns nil exactly when the
\* token's leaseID and serverNonce equal the record of the token's key, and
\* then the record is gone; in every other case (no record, another
\* identity) it returns ErrLockOwnershipMismatch and the record is untouched.
C5_ReleaseIffOwner ==
    (last.op = "Release" /\ last.err # "BackendError")
        => /\ last.err = "nil" <=> SameIdentity(last.pre, last.had)
           /\ last.err = "nil" => table[last.key] = NoRow
           /\ last.err # "nil"
                 => (last.err = "ErrLockOwnershipMismatch"
                     /\ table[last.key] = last.pre)

\* A second Release of the same token finds no record.
C5_Witness ==
    /\ last.op = "Release" /\ last.err = "ErrLockOwnershipMismatch"
    /\ last.pre = NoRow

C7_ContentionWritesNothing ==
    /\ last.op = "TryAcquire"
          => (last.err = "nil" /\ last.ret = NoToken
              /\ table[last.key] = last.pre)
    /\ (last.op = "Acquire" /\ last.ret = NoToken /\ Live(last.pre, last.at))
          => table[last.key] = last.pre

\* A contender with other metadata than the holder's has just been refused.
C7_Witness ==
    /\ last.op = "TryAcquire" /\ call[last.c].pc = "sleep"
    /\ last.pre.metadata # call[last.c].opts.Metadata
    /\ last.pre.lease_id # call[last.c].leaseID

\* C8: every Refresh that succeeds leaves a validUntil strictly greater than
\* before and a serverNonce different from before.
C8_RefreshMonotonic ==
    (last.op = "Refresh" /\ last.err = "nil")
        => /\ table[last.key].valid_until > last.pre.valid_until
           /\ table[last.key].server_nonce # last.pre.server_nonce

\* C9: the token a successful Refresh returns carries the identity and the
\* validUntil of the record just written.
C9_RefreshTokenIsCurrent ==
    (last.op = "Refresh" /\ last.err = "nil")
        => /\ last.ret.Key = last.key
           /\ last.ret.LeaseID = table[last.key].lease_id
           /\ last.ret.ServerNonce = table[last.key].server_nonce
           /\ last.ret.ValidUntil = table[last.key].valid_until

\* C10: a Refresh with matching identity presented when the lease's
\* validUntil has elapsed, or when less than 15% of the TTL remains before
\* it, is rejected with ErrRefreshTooLate and leaves the record unchanged.
C10_RefreshFailsClosed ==
    (last.op = "Refresh" /\ last.err # "BackendError"
     /\ SameIdentity(last.pre, last.had)
     /\ 100 * (last.pre.valid_until - last.at) < MarginPercent * last.ttl)
        => (last.err = "ErrRefreshTooLate" /\ table[last.key] = last.pre)

\* A key of 1 to 256 characters, each a letter, a digit, '_' or '-'.
KeyWellFormed(key) ==
    /\ Len(key) >= 1 /\ Len(key) <= 256
    /\ \A i \in 1..Len(key) : key[i] \in KeyChars

\* A TTL (microseconds) from 1 ms to 10 min, both included.
TTLInRange(ttl) == ttl >= 1 * 1000 /\ ttl <= 10 * 60 * 1000 * 1000

\* The Acquire that completed last drew no identifier, made no attempt and
\* left the row of its key as it was.
NoBackendCall ==
    /\ last.ret = NoToken /\ last.lease = 0
    /\ last.attempt = 0 /\ last.contended = 0
    /\ table[last.key] = last.pre

\* C11: an Acquire whose key is empty, longer than 256 characters or has a
\* character outside [A-Za-z0-9_-] returns ErrInvalidKeyFormat, and one whose
\* key is well formed and whose TTL is outside [1ms, 10min] returns
\* ErrInvalidTTL, in both cases with no attempt made and no lease changed; an
\* Acquire with a well-formed key and a TTL in range (1ms and 10min included)
\* returns neither error; a call in the retry loop has passed both checks.
C11_ValidationBoundaries ==
    /\ (last.op = "Acquire" /\ ~KeyWellFormed(last.key))
          => (last.err = "ErrInvalidKeyFormat" /\ NoBackendCall)
    /\ (last.op = "Acquire" /\ KeyWellFormed(last.key)
        /\ ~TTLInRange(last.opts.TTL))
          => (last.err = "ErrInvalidTTL" /\ NoBackendCall)
    /\ (last.op = "Acquire" /\ KeyWellFormed(last.key)
        /\ TTLInRange(last.opts.TTL))
          => last.err \notin {"ErrInvalidKeyFormat", "ErrInvalidTTL"}
    /\ \A c \in Callers :
          call[c].pc # "idle"
              => (KeyWellFormed(call[c].key) /\ TTLInRange(call[c].opts.TTL))

\* A key of 257 characters is rejected while the key of 256 characters holds
\* a lease that was granted with a TTL of exactly 10 minutes.
C11_Witness ==
    /\ last.op = "Acquire" /\ last.key = LongKey
    /\ last.err = "ErrInvalidKeyFormat"
    /\ table[MaxKey] # NoRow
    /\ table[MaxKey].valid_until >= 10 * 60 * 1000

\* The five bounds of the retry configuration (factors in hundredths).
StrategyWithinBounds(r) ==
    /\ r.MaxRetries >= 0
    /\ r.BaseDelay > 0
    /\ r.MaxDelay >= r.BaseDelay
    /\ r.BackoffFactor >= 100
    /\ r.JitterFactor >= 0 /\ r.JitterFactor <= 100

\* C12: an Acquire with a well-formed key, a TTL in range and a retry
\* strategy violating any of maxRetries >= 0, baseDelay > 0,
\* maxDelay >= baseDelay, backoffFactor >= 1, jitterFactor in [0,1] returns
\* the strategy's validation error with no attempt made, and every call in
\* the retry loop runs with a strategy satisfying all five.
C12_RetryStrategyBounds ==
    /\ (last.op = "Acquire" /\ KeyWellFormed(last.key)
        /\ TTLInRange(last.opts.TTL)
        /\ ~StrategyWithinBounds(last.opts.RetryStrategy))
          => (last.err = "ErrRetryStrategy" /\ NoBackendCall)
    /\ \A c \in Callers :
          call[c].pc # "idle"
              => StrategyWithinBounds(call[c].opts.RetryStrategy)

\* The Acquire call whose outcome is in last is over: no call in progress
\* carries its leaseID.
CallEnded ==
    \A c \in Callers : call[c].pc # "idle" => call[c].leaseID # last.lease

\* C13: an Acquire that ends in a backend error ends at the attempt that
\* failed: every attempt before it was contended, the call is over, it
\* returns no token and the error is the backend's, not
\* ErrLockAcquisitionFailed; ErrLockAcquisitionFailed is returned only after
\* MaxRetries + 1 attempts that were all contended.
C13_BackendErrorAborts ==
    /\ (last.op = "Acquire" /\ last.err = "BackendError")
          => /\ last.ret = NoToken
             /\ last.contended = last.attempt
             /\ last.attempt <= last.retries
             /\ CallEnded
    /\ (last.op = "Acquire" /\ last.err = "ErrLockAcquisitionFailed")
          => /\ last.ret = NoToken
             /\ last.attempt = last.retries
             /\ last.contended = last.retries + 1
             /\ CallEnded
    /\ last.op \notin {"none", "Acquire"}
          => last.err # "ErrLockAcquisitionFailed"

\* The second attempt of a call with one retry fails in the backend after
\* the first was contended, so that no retry is left unused by exhaustion.
C13_Witness ==
    /\ last.op = "Acquire" /\ last.err = "BackendError"
    /\ last.retries = 1 /\ last.attempt = 1 /\ last.contended = 1
    /\ Live(table[last.key], now)

\* C14: when an Acquire call that reached the retry loop returns without a
\* token (backend error, timeout, cancellation or exhaustion), the row of its
\* key does not carry that call's leaseID.
C14_NoOrphanLease ==
    (last.op = "Acquire" /\ last.ret = NoToken /\ last.lease # 0)
        => (table[last.key] = NoRow
            \/ table[last.key].lease_id # last.lease)

\* The token of the Acquire that completed last is the record of its key:
\* the requested key, the call's leaseID and nonce (both drawn, so not
\* empty), the stored validUntil; the call made no attempt after the grant.
GrantedTokenIsRecord ==
    /\ last.err = "nil"
    /\ last.ret.Key = last.key
    /\ last.ret.LeaseID = last.lease
    /\ last.ret.LeaseID \in 1..nextId /\ last.ret.ServerNonce \in 1..nextId
    /\ table[last.key] # NoRow
    /\ table[last.key].lease_id = last.ret.LeaseID
    /\ table[last.key].server_nonce = last.ret.ServerNonce
    /\ table[last.key].valid_until = last.ret.ValidUntil
    /\ last.contended = last.attempt
    /\ CallEnded

\* C15 (as stated): a granted Acquire returns at once a token that is the
\* record of its key, with validUntil = NOW() + ttl + 10 ms (in microseconds).
C15_GrantedTokenExactTTL ==
    (last.op = "Acquire" /\ last.ret # NoToken)
        => /\ GrantedTokenIsRecord
           /\ 1000 * last.ret.ValidUntil
                 = 1000 * last.at + last.opts.TTL + 1000 * 10

\* C15 (amended): a granted Acquire returns at once a token that is the
\* record of its key, with validUntil = NOW() + the TTL cut to whole
\* milliseconds + 10 ms.
C15_GrantedToken ==
    (last.op = "Acquire" /\ last.ret # NoToken)
        => /\ GrantedTokenIsRecord
           /\ last.ret.ValidUntil
                 = last.at + (last.opts.TTL \div 1000) + 10

\* A TTL of 5.5 ms is granted at a later instant, over an elapsed lease.
C15_Witness ==
    /\ last.op = "Acquire" /\ last.ret # NoToken
    /\ last.opts.TTL = 5500 /\ last.at > 0 /\ last.pre # NoRow
    /\ last.ret.ValidUntil = last.at + 15

C17_RecordLifecycle ==
    last.op # "none"
        => /\ (last.pre # NoRow /\ table[last.key] = NoRow)
                 => (last.op = "Release" /\ SameIdentity(last.pre, last.had))
           /\ (last.pre = NoRow /\ table[last.key] # NoRow)
                 => (last.op = "Acquire"
                     /\ table[last.key].lease_id = last.lease)
           /\ (last.pre # NoRow /\ table[last.key] # NoRow
               /\ table[last.key].lease_id # last.pre.lease_id)
                 => (last.op = "Acquire" /\ last.pre.valid_until <= last.at
                     /\ table[last.key].lease_id = last.lease)
           /\ (last.op = "Refresh" /\ table[last.key] # last.pre)
                 => /\ last.pre # NoRow /\ table[last.key] # NoRow
                    /\ table[last.key].lease_id = last.pre.lease_id
                    /\ table[last.key].metadata = last.pre.metadata
                    /\ table[last.key].created_at = last.pre.created_at
           /\ last.op \in {"TryAcquire", "IsHeld", "Close"}
                 => table[last.key] = last.pre

\* A Refresh at a later instant rotates the nonce of a lease and keeps its
\* leaseID.
C17_Witness ==
    /\ last.op = "Refresh" /\ last.pre # NoRow /\ table[last.key] # NoRow
    /\ table[last.key].server_nonce # last.pre.server_nonce
    /\ table[last.key].updated_at > last.pre.updated_at
    /\ table[last.key].lease_id = last.pre.lease_id

\* C18: a Refresh the backend refuses returns ErrRefreshTooLate when the
\* token's identity matches the record (the refusal is for timing) and
\* ErrLockOwnershipMismatch when the key has a record whose leaseID or
\* serverNonce differs from the token's.
C18_RefreshErrorsDistinct ==
    (last.op = "Refresh" /\ last.err \notin {"nil", "BackendError"}
     /\ last.pre # NoRow)
        => /\ SameIdentity(last.pre, last.had)
                 => last.err = "ErrRefreshTooLate"
           /\ ~SameIdentity(last.pre, last.had)
                 => last.err = "ErrLockOwnershipMismatch"

\* C19: Close returns nil and leaves the adapter closed, however often it is
\* called; a Release, Refresh or IsHeld, or an Acquire with valid arguments,
\* called on the closed adapter returns ErrAdapterClosed and leaves the
\* record of its key as it was.
C19_ClosedAdapter ==
    /\ last.op = "Close" => (last.err = "nil" /\ closed)
    /\ ((last.op \in {"Release", "Refresh", "IsHeld"}
         \/ (last.op = "Acquire" /\ last.lease # 0))
        /\ last.closed)
          => (last.err = "ErrAdapterClosed" /\ table[last.key] = last.pre)

\* C20: with jitterFactor = 0 the delay a call sleeps after its contended
\* attempt i is min(maxDelay, baseDelay * backoffFactor^i); the factor is in
\* hundredths, so both sides are compared multiplied by 100^i.
C20_BackoffDeterministic ==
    \A c \in Callers :
        (call[c].pc = "sleep"
         /\ StrategyWithinBounds(call[c].opts.RetryStrategy)
         /\ call[c].opts.RetryStrategy.JitterFactor = 0)
            => call[c].delay * IntPow(100, call[c].attempt)
                 = (IF call[c].opts.RetryStrategy.BaseDelay
                          * IntPow(call[c].opts.RetryStrategy.BackoffFactor,
                                   call[c].attempt)
                        > call[c].opts.RetryStrategy.MaxDelay
                          * IntPow(100, call[c].attempt)
                    THEN call[c].opts.RetryStrategy.MaxDelay
                          * IntPow(100, call[c].attempt)
                    ELSE call[c].opts.RetryStrategy.BaseDelay
                          * IntPow(call[c].opts.RetryStrategy.BackoffFactor,
                                   call[c].attempt))

\* C21: HealthCheck returns a report and no error whether the probe succeeds
\* or fails; the report's status is one of the three states; a failed probe
\* gives StatusRed with an error carrying the failure's text; and the lease
\* table is as it was before the call.
C21_HealthCheckReports ==
    last.op = "HealthCheck"
        => /\ last.err = "nil"
           /\ last.report # NoReport
           /\ last.report.Status
                 \in {"StatusGreen", "StatusYellow", "StatusRed"}
           /\ last.probe = "ok" => last.report.Status = "StatusGreen"
           /\ last.probe = "error"
                 => /\ last.report.Status = "StatusRed"
                    /\ ~last.report.Error.nil
                    /\ last.report.Error.text # ""
           /\ table = last.tbl

\* The probe fails while a lease is live.
C21_Witness ==
    /\ last.op = "HealthCheck" /\ last.probe = "error"
    /\ \E k \in KeyInputs : Live(table[k], now)

\* C28: in the report of every HealthCheck the Error field is nil exactly when
\* the Status is StatusGreen.
C28_ErrorNilIffGreen ==
    last.op = "HealthCheck"
        => (last.report.Error.nil <=> last.report.Status = "StatusGreen")

\* ----------------------------------------------------------------- C22
Required(field) == field \o " is required"
MustBeDifferent == "LockTableName and MigrationTableName must be different"
Names(seq) == { seq[i] : i \in 1..Len(seq) }
MessageWhen(violated, msg) == IF violated THEN {msg} ELSE {}

\* What Validate returned for the configuration p: an error exactly when a
\* name is empty or the two table names are equal and not empty, the error
\* being ErrInvalidConfig with one message for each violated rule and no
\* other message, each once.
ValidateReports(p, err, msgs) ==
    /\ (err # "nil")
         <=> \/ p.MigrationSchema = "" \/ p.MigrationTableName = ""
             \/ p.LockSchema = "" \/ p.LockTableName = ""
             \/ (p.LockTableName # ""
                   /\ p.LockTableName = p.MigrationTableName)
    /\ err \in {"nil", "ErrInvalidConfig"}
    /\ Cardinality(Names(msgs)) = Len(msgs)
    /\ Names(msgs) =
          MessageWhen(p.MigrationSchema = "", Required("MigrationSchema"))
          \cup MessageWhen(p.MigrationTableName = "",
                           Required("MigrationTableName"))
          \cup MessageWhen(p.LockSchema = "", Required("LockSchema"))
          \cup MessageWhen(p.LockTableName = "", Required("LockTableName"))
          \cup MessageWhen(p.LockTableName # ""
                             /\ p.LockTableName = p.MigrationTableName,
                           MustBeDifferent)
    /\ (p.MigrationSchema = "" /\ p.MigrationTableName = ""
          /\ p.LockSchema = "" /\ p.LockTableName = "")
         => /\ Len(msgs) = 4
            /\ MustBeDifferent \notin Names(msgs)

\* C22 as stated: Validate reports as above, and the configuration that
\* NewPostgresLockerConfig or WithDefaults produces passes Validate.
C22_ValidateAndDefaults ==
    /\ last.op = "Validate"
         => /\ ValidateReports(last.cfg, last.err, last.msgs)
            /\ cfg = last.cfg
    /\ PostgresLockerConfigValidate(NewPostgresLockerConfig).err = "nil"
    /\ last.op = "WithDefaults"
         => PostgresLockerConfigValidate(cfg).err = "nil"

\* C22: Validate reports as above; the configuration of
\* NewPostgresLockerConfig passes; the configuration WithDefaults produces has
\* no empty name, and passes exactly when its two table names differ.
C22_ValidateAndDefaultsDistinct ==
    /\ last.op = "Validate"
         => /\ ValidateReports(last.cfg, last.err, last.msgs)
            /\ cfg = last.cfg
    /\ PostgresLockerConfigValidate(NewPostgresLockerConfig).err = "nil"
    /\ last.op = "WithDefaults"
         => /\ cfg = WithDefaults(last.cfg)
            /\ "" \notin {cfg.MigrationSchema, cfg.MigrationTableName,
                          cfg.LockSchema, cfg.LockTableName}
            /\ (PostgresLockerConfigValidate(cfg).err = "nil")
                 <=> cfg.LockTableName # cfg.MigrationTableName

\* Validate rejects a configuration whose only fault is the equal table names.
C22_Witness ==
    /\ last.op = "Validate"
    /\ last.msgs = <<MustBeDifferent>>

\* ----------------------------------------------------------------- C25
\* The migration table and the lock table of the configuration are two
\* relations, neither of them the view of migration v0.0.1.
DistinctRelations(c) ==
    /\ <<c.MigrationSchema, c.MigrationTableName>>
         # <<c.LockSchema, c.LockTableName>>
    /\ "lock_health" \notin {c.MigrationTableName, c.LockTableName}

MigrationRows(d, c) ==
    IF <<c.MigrationSchema, c.MigrationTableName>> \in DOMAIN d.tables
    THEN d.tables[<<c.MigrationSchema, c.MigrationTableName>>].rows
    ELSE << >>

Attempts(c) == call[c].attempt + 1

\* C23 (state part): a call in progress with MaxRetries = n has issued at most
\* n + 1 attempts; a call that has ended issued at most n + 1 attempts, and
\* if every one of them was contended it issued exactly n + 1 (one when
\* n = 0) and ended with ErrLockAcquisitionFailed.
AttemptsBounded ==
    /\ \A c \in Callers :
          call[c].pc # "idle"
              => /\ Attempts(c) <= call[c].opts.RetryStrategy.MaxRetries + 1
                 /\ call[c].contended
                      = IF call[c].pc = "sleep" THEN Attempts(c)
                        ELSE Attempts(c) - 1
    /\ (last.op = "Acquire" /\ last.lease # 0)
          => /\ last.attempt + 1 <= last.retries + 1
             /\ last.contended = last.attempt + 1
                  => /\ last.attempt + 1 = last.retries + 1
                     /\ last.err = "ErrLockAcquisitionFailed"
             /\ last.err = "ErrLockAcquisitionFailed"
                  => last.contended = last.retries + 1

\* C23 (step part): while a call is in progress its leaseID and serverNonce
\* stay the ones drawn when it started, no identifier is drawn for a further
\* attempt, and the row an attempt writes carries them.
IdentifiersKept ==
    \A c \in Callers :
        /\ (call[c].pc # "idle" /\ call'[c].pc # "idle")
              => /\ call'[c].leaseID = call[c].leaseID
                 /\ call'[c].nonce = call[c].nonce
                 /\ call'[c].key = call[c].key
        /\ (call[c].pc = "attempt" /\ call'[c] # call[c])
              => /\ nextId' = nextId
                 /\ table'[call[c].key] # table[call[c].key]
                      => /\ table'[call[c].key].lease_id = call[c].leaseID
                         /\ table'[call[c].key].server_nonce = call[c].nonce

C24_NoWaitAfterLastAttempt ==
    /\ \A c \in Callers :
          call[c].pc = "sleep"
              => call[c].attempt < call[c].opts.RetryStrategy.MaxRetries
    /\ (last.op = "Acquire" /\ last.err = "ErrLockAcquisitionFailed")
          => last.waits = last.retries

\* ----------------------------------------------------------------- C26
\* The steps an Acquire call in progress can still take before it must
\* return: two for each attempt left (the round trip and the sleep), less the
\* round trip when the call is already asleep.
StepsLeft(c) ==
    IF call[c].pc = "idle" THEN 0
    ELSE 2 * (call[c].opts.RetryStrategy.MaxRetries - call[c].attempt)
         + (IF call[c].pc = "attempt" THEN 2 ELSE 1)

\* Every step of a call in progress brings its return nearer, and no step of
\* another caller moves it away.
StepsLeftDecrease ==
    \A c \in Callers :
        call[c].pc # "idle"
            => /\ StepsLeft(c)' <= StepsLeft(c)
               /\ call'[c] # call[c] => StepsLeft(c)' < StepsLeft(c)

\* C26: every Acquire call terminates: a call in progress returns, and does
\* so after finitely many steps of its own, whatever the other callers do
\* with the key.
C26_AcquireTerminates ==
    /\ \A c \in Callers : (call[c].pc # "idle") ~> (call[c].pc = "idle")
    /\ [][StepsLeftDecrease]_vars

\* A call has returned after its retries while another caller's lease on the
\* key is still live.
C26_Witness ==
    /\ last.op = "Acquire" /\ last.err = "ErrLockAcquisitionFailed"
    /\ last.retries = 1
    /\ \E d \in Callers \ {last.c} :
          /\ ValidProof(d)
          /\ tok[d].Key = last.key

\* ----------------------------------------------------------------- C27
\* C27: the two results of IsHeld agree: held = true comes with a remaining
\* time above zero, held = false with a remaining time of zero.
C27_HeldAgreesWithRemaining ==
    (last.op = "IsHeld" /\ last.err = "nil")
        => /\ last.held => last.remaining > 0
           /\ ~last.held => last.remaining = 0

\* ----------------------------------------------------------------- C29
\* C29: for a strategy that validation accepted, the delay of every attempt
\* from 0 to MaxRetries is at least zero and at most MaxDelay, and no smaller
\* than the delay of the attempt before.
C29_BackoffWithinBounds ==
    \A c \in Callers :
        call[c].pc # "idle"
            => \A a \in 0..call[c].opts.RetryStrategy.MaxRetries :
                  /\ 0 <= CalculateBackoff(call[c].opts.RetryStrategy, a)
                  /\ CalculateBackoff(call[c].opts.RetryStrategy, a)
                        <= call[c].opts.RetryStrategy.MaxDelay
                  /\ a > 0
                        => CalculateBackoff(call[c].opts.RetryStrategy, a - 1)
                             <= CalculateBackoff(call[c].opts.RetryStrategy, a)

\* ----------------------------------------------------------------- C30
\* C30: every lease written by Acquire or Refresh uses a TTL within
\* [MinLockTTL, MaxLockTTL], so no record's validUntil is more than 10 minutes
\* and the padding after the instant it was written; and a Refresh whose
\* newTTL is outside the range returns an error and leaves the record as it
\* was.
C30_WrittenTTLInRange ==
    /\ \A k \in KeyInputs :
          table[k] # NoRow
              => table[k].valid_until
                   <= table[k].updated_at + Milliseconds(MaxLockTTL)
                        + SafetyPaddingMs
    /\ (last.op = "Refresh" /\ ~TTLInRange(last.newTTL))
          => /\ last.err # "nil"
             /\ table[last.key] = last.pre

====
